---- MODULE Spec2Model ----
(***************************************************************************)
(* Model of src/model/paradis.py: the semi-Lagrangian advection step       *)
(* NeuralSemiLagrangian.forward, traced for one element (channel c, row i, *)
(* column j) of the per-element tensors, and the sub-step loop of          *)
(* Paradis.forward.                                                        *)
(*                                                                         *)
(* Angles are integers in ticks of pi/(8*Res).  Every other real number is *)
(* an exact rational or one of the IEEE-754 specials inf / nan: tensor     *)
(* arithmetic never raises on a division by zero, it produces them.        *)
(* Rounding is not modelled.                                               *)
(***************************************************************************)
EXTENDS Integers, FiniteSets, Sequences, TLC

VARIABLES
    pc,           \* position inside NeuralSemiLagrangian.forward
    hidden_dim,   \* self.hidden_dim
    variational,  \* self.variational
    mesh,         \* the rectangular grid behind lat_grid / lon_grid
    cell,         \* the traced element: channel c, row i, column j
    dt,           \* the time step handed to forward
    velocities,   \* velocity_net output at the traced cell, per channel
    kl_loss,
    u, v,
    lon_prime, lat_prime,
    lat_dep, lon_dep,
    grid_x, grid_y,
    sampled,      \* padded-pixel position grid_sample reads
    returned,     \* what forward returns
    ppc,          \* position inside Paradis.forward
    num_substeps, \* self.num_substeps
    substep,      \* the loop variable i
    z, z0, z_adv, dz,
    calls,        \* history: the argument of each advection invocation
    outs          \* history: z after each update

nslVars == <<pc, hidden_dim, mesh, cell, velocities, kl_loss, u, v,
             lon_prime, lat_prime, lat_dep, lon_dep, grid_x, grid_y, sampled,
             returned>>
paradisVars == <<ppc, num_substeps, substep, z, z0, z_adv, dz, calls, outs>>
vars == <<nslVars, paradisVars, variational, dt>>

----------------------------------------------------------------------------
(* Bounds of the model *)

Res == 1
MaxH == 4
MaxW == 8
MaxC == 2
MaxB == 2
MaxDt == 3
MaxSubsteps == 2
MaxVal == 1

HalfPi == 4 * Res
Pi == 2 * HalfPi
TwoPi == 2 * Pi

----------------------------------------------------------------------------
(* Real numbers: exact rationals n/d (d > 0, lowest terms), inf, nan *)

RECURSIVE Gcd(_, _)
Gcd(a, b) == IF b = 0 THEN a ELSE Gcd(b, a % b)

AbsInt(n) == IF n < 0 THEN -n ELSE n
Sign(n) == IF n < 0 THEN -1 ELSE IF n > 0 THEN 1 ELSE 0

NaN == [k |-> "nan", n |-> 0, d |-> 0]
Inf(s) == [k |-> "inf", n |-> s, d |-> 0]
Fin(n, d) ==
    LET g == Gcd(AbsInt(n), d)
    IN  [k |-> "fin", n |-> n \div g, d |-> d \div g]
Num(n) == Fin(n, 1)

FNeg(x) == IF x.k = "nan" THEN NaN
           ELSE IF x.k = "inf" THEN Inf(-x.n)
           ELSE Fin(-x.n, x.d)

FAdd(x, y) ==
    IF x.k = "nan" \/ y.k = "nan" THEN NaN
    ELSE IF x.k = "inf" /\ y.k = "inf" THEN (IF x.n = y.n THEN x ELSE NaN)
    ELSE IF x.k = "inf" THEN x
    ELSE IF y.k = "inf" THEN y
    ELSE Fin(x.n * y.d + y.n * x.d, x.d * y.d)

FSub(x, y) == FAdd(x, FNeg(y))

FMul(x, y) ==
    IF x.k = "nan" \/ y.k = "nan" THEN NaN
    ELSE IF x.k = "inf" \/ y.k = "inf"
         THEN (IF Sign(x.n) * Sign(y.n) = 0 THEN NaN ELSE Inf(Sign(x.n) * Sign(y.n)))
    ELSE Fin(x.n * y.n, x.d * y.d)

\* IEEE division: x/0 is inf (nan for 0/0); the zero of max - min is +0
FDiv(x, y) ==
    IF x.k = "nan" \/ y.k = "nan" THEN NaN
    ELSE IF x.k = "inf" THEN (IF y.k = "inf" THEN NaN
                              ELSE Inf(IF y.n < 0 THEN -x.n ELSE x.n))
    ELSE IF y.k = "inf" THEN Num(0)
    ELSE IF y.n = 0 THEN (IF x.n = 0 THEN NaN ELSE Inf(Sign(x.n)))
    ELSE Fin(Sign(y.n) * x.n * y.d, x.d * AbsInt(y.n))

\* comparisons: every comparison with nan is false
FLt(x, y) ==
    IF x.k = "nan" \/ y.k = "nan" THEN FALSE
    ELSE IF x.k = "inf" THEN x.n < 0 /\ ~(y.k = "inf" /\ y.n < 0)
    ELSE IF y.k = "inf" THEN y.n > 0
    ELSE x.n * y.d < y.n * x.d
FGt(x, y) == FLt(y, x)
FLe(x, y) ==
    IF x.k = "nan" \/ y.k = "nan" THEN FALSE
    ELSE ~FLt(y, x)

FAbs(x) == IF x.k = "nan" THEN NaN
           ELSE IF x.k = "inf" THEN Inf(1)
           ELSE Fin(AbsInt(x.n), x.d)

\* torch.remainder(x, m) for a finite m > 0: x - m * floor(x / m)
Remainder(x, m) ==
    IF x.k # "fin" THEN NaN
    ELSE LET q == (x.n * m.d) \div (x.d * m.n)
         IN  FSub(x, FMul(m, Num(q)))

\* torch.where on one element
Where(cond, a, b) == IF cond THEN a ELSE b

SetMin(S) == CHOOSE m \in S : \A s \in S : m <= s
SetMax(S) == CHOOSE m \in S : \A s \in S : m >= s

----------------------------------------------------------------------------
(* The inputs of forward *)

\* H rows lat0 + i*dlat strictly between the poles, centred on the equator
\* (to a tick), global or regional in latitude; W columns j*dlon that cover
\* the circle, from 0 or, when the whole longitude grid is shifted by a full
\* wraparound, from 2*pi.  A spacing of 0 is the degenerate grid: every cell
\* has the same latitude (longitude), so the extrema are equal.
LatLayouts == {l \in (2..MaxH) \X (0..(2 * HalfPi)) :
                  (l[1] - 1) * l[2] <= 2 * HalfPi - 2}
LonLayouts == {l \in (2..MaxW) \X (0..TwoPi) :
                  l[2] = 0 \/ l[1] * l[2] = TwoPi}
Meshes == {[H |-> la[1], dlat |-> la[2], W |-> lo[1], dlon |-> lo[2], shifted |-> s] :
              la \in LatLayouts, lo \in LonLayouts, s \in BOOLEAN}
\* the 4 x 8 mesh: latitudes -67.5, -22.5, 22.5, 67.5 degrees, longitudes
\* 0, 45, ..., 315 degrees
ReferenceMesh ==
    [H |-> 4, dlat |-> HalfPi \div 2, W |-> 8, dlon |-> TwoPi \div 8, shifted |-> FALSE]

Cells(m, C, B) == [b : 0..(B - 1), c : 0..(C - 1), i : 0..(m.H - 1), j : 0..(m.W - 1)]

\* velocities are unit angular speeds; dt scales the displacement
Vel == {-1, 0, 1}

lat_grid(i) == -(((mesh.H - 1) * mesh.dlat) \div 2) + i * mesh.dlat
lon_grid(j) == j * mesh.dlon + (IF mesh.shifted THEN TwoPi ELSE 0)

min_lat == SetMin({lat_grid(i) : i \in 0..(mesh.H - 1)})
max_lat == SetMax({lat_grid(i) : i \in 0..(mesh.H - 1)})
min_lon == SetMin({lon_grid(j) : j \in 0..(mesh.W - 1)})
max_lon == SetMax({lon_grid(j) : j \in 0..(mesh.W - 1)})

----------------------------------------------------------------------------
(* velocities.view(batch_size, 2, hidden_dim, H, W) and the [:, 0], [:, 1] slices *)

\* the layout [batch, hidden_dim, 2, lat, lon], sliced [:, :, k]: u and v of a
\* channel interleaved
ViewOffsetInterleaved(b, k, c, i, j) ==
    (((b * hidden_dim + c) * 2 + k) * mesh.H + i) * mesh.W + j

\* row-major offset of element [b, k, c, i, j] of the view
ViewOffset(b, k, c, i, j) ==
    (((b * 2 + k) * hidden_dim + c) * mesh.H + i) * mesh.W + j

\* the [batch, channel] of the [B, 2*hidden_dim, H, W] tensor stored at an offset
SourceIndex(off) ==
    LET plane == off \div (mesh.H * mesh.W)
    IN  <<plane \div (2 * hidden_dim), plane % (2 * hidden_dim)>>

\* the predictor channel read by element [b, k, c, i, j] of the view
ViewSource(b, k, c, i, j) == SourceIndex(ViewOffset(b, k, c, i, j))

\* the predictor's value at [bb, ch, i, j] for the traced i, j
\* (an entry of another batch element is no value of Vel)
PredictorAt(bb, ch) == IF bb = cell.b THEN velocities[ch] ELSE TwoPi

----------------------------------------------------------------------------
(* _transform_to_latlon on tick-valued angles *)

\* cos(s) > 0, < 0 or = 0
CosSign(s) ==
    LET r == s % TwoPi
    IN  IF r < HalfPi \/ r > Pi + HalfPi THEN 1
        ELSE IF r = HalfPi \/ r = Pi + HalfPi THEN 0
        ELSE -1

\* arcsin(sin(s)), in [-pi/2, pi/2]
ArcsinSin(s) ==
    LET r == s % TwoPi
    IN  IF r <= HalfPi THEN r
        ELSE IF r <= Pi + HalfPi THEN Pi - r
        ELSE r - TwoPi

\* atan2(k*sin(a), k*cos(a)) for k > 0: a brought into (-pi, pi]
Atan2Angle(a) ==
    LET r == a % TwoPi
    IN  IF r > Pi THEN r - TwoPi ELSE r

\* The rotation is evaluated exactly where its sines and cosines are exact in
\* ticks: lon' a multiple of pi, where
\*     sin_lat = sin(lat' +- lat_p), num = 0, den = +-cos(lat' +- lat_p),
\* or an arrival point on the equator (lat_p = 0), where
\*     sin_lat = sin(lat'), num = cos(lat') sin(lon'), den = cos(lat') cos(lon').
\* The pole itself (cos = 0), where the clamp and atan2(0, 0) act, is left out.
LatSum(lat_pr, lon_pr, lat_p) ==
    IF lon_pr % TwoPi = Pi THEN lat_pr - lat_p ELSE lat_pr + lat_p

Representable(lat_pr, lon_pr, lat_p) ==
    /\ lat_p = 0 \/ lon_pr % Pi = 0
    /\ CosSign(LatSum(lat_pr, lon_pr, lat_p)) # 0

_transform_to_latlon(lat_pr, lon_pr, lat_p, lon_p) ==
    LET s == LatSum(lat_pr, lon_pr, lat_p)
        lat == ArcsinSin(s)
        atan2 == Atan2Angle(lon_pr + (IF CosSign(s) < 0 THEN Pi ELSE 0))
        lon == lon_p + atan2
    IN  <<lat, (lon + TwoPi) % TwoPi>>

----------------------------------------------------------------------------
(* The sampling-grid arithmetic of forward, one element at a time *)

Normalise(dep, lo, hi) ==
    FSub(FDiv(FMul(Num(2), Num(dep - lo)), Num(hi - lo)), Num(1))

PeriodicWrap(gx) == FSub(Remainder(FAdd(gx, Num(1)), Num(2)), Num(1))

\* the right-hand mask taken after the left-hand shift has been applied
GeoCyclicRollLateMask(gx, gy) ==
    LET geo_mask_left == FLe(gx, Num(0))
        lat_mask_outer == FGt(FAbs(gy), Num(1))
        gx1 == Where(lat_mask_outer /\ geo_mask_left, FAdd(gx, Num(1)), gx)
        geo_mask_right == FGt(gx1, Num(0))
    IN  Where(lat_mask_outer /\ geo_mask_right, FSub(gx1, Num(1)), gx1)

GeoCyclicRoll(gx, gy) ==
    LET geo_mask_left == FLe(gx, Num(0))
        geo_mask_right == FGt(gx, Num(0))
        lat_mask_outer == FGt(FAbs(gy), Num(1))
        gx1 == Where(lat_mask_outer /\ geo_mask_left, FAdd(gx, Num(1)), gx)
    IN  Where(lat_mask_outer /\ geo_mask_right, FSub(gx1, Num(1)), gx1)

\* the two reflections as alternatives instead of one after the other
LatitudeMirrorEither(gy) ==
    IF FLt(gy, Num(-1)) THEN FNeg(FAdd(Num(2), gy))
    ELSE IF FGt(gy, Num(1)) THEN FSub(Num(2), gy)
    ELSE gy

LatitudeMirror(gy) ==
    LET gy1 == Where(FLt(gy, Num(-1)), FNeg(FAdd(Num(2), gy)), gy)
    IN  Where(FGt(gy1, Num(1)), FSub(Num(2), gy1), gy1)

padding == 1

\* size of an axis after GeoCyclicPadding(padding)
PaddedSize(n) == n + 2 * padding

PadRescale(g, n) == FDiv(FMul(g, Num(n)), Num(PaddedSize(n)))

\* grid_sample, align_corners=True: -1 and 1 are the centres of pixels 0 and
\* size-1; padding_mode="border" clips the pixel position to that range
Unnormalize(g, size) == FMul(FDiv(FAdd(g, Num(1)), Num(2)), Num(size - 1))
ClipBorder(p, size) ==
    IF FLt(p, Num(0)) THEN Num(0)
    ELSE IF FGt(p, Num(size - 1)) THEN Num(size - 1)
    ELSE p
SourcePixel(g, n) == ClipBorder(Unnormalize(g, PaddedSize(n)), PaddedSize(n))

\* lines 167-170: the pair only in the variational configuration
ForwardResult(interpolated, kl) ==
    IF variational THEN <<"pair", interpolated, kl>> ELSE <<"tensor", interpolated>>

----------------------------------------------------------------------------
(* NeuralSemiLagrangian.forward *)

\* The meshes and their cells are swept with one channel; the channel layout,
\* the batch index and the variational configuration are swept at the first
\* and the last cell of the reference mesh.
MeshSweep ==
    {[hidden_dim |-> 1, variational |-> FALSE, mesh |-> m, cell |-> e, dt |-> t] :
        m \in Meshes, e \in UNION {Cells(mm, 1, 1) : mm \in Meshes}, t \in 1..MaxDt}
ChannelSweep ==
    {[hidden_dim |-> C, variational |-> var, mesh |-> ReferenceMesh, cell |-> e, dt |-> t] :
        C \in 1..MaxC, var \in BOOLEAN,
        e \in {ee \in Cells(ReferenceMesh, MaxC, MaxB) :
                  \/ ee.i = 0 /\ ee.j = 0
                  \/ ee.i = ReferenceMesh.H - 1 /\ ee.j = ReferenceMesh.W - 1},
        t \in 1..MaxDt}
Configs ==
    {cfg \in MeshSweep \cup ChannelSweep :
        cfg.cell \in Cells(cfg.mesh, cfg.hidden_dim, MaxB)}

None == <<>>

IdleNSL ==
    /\ pc = "idle"
    /\ hidden_dim = 1
    /\ mesh = ReferenceMesh
    /\ cell = [b |-> 0, c |-> 0, i |-> 0, j |-> 0]
    /\ velocities = None /\ kl_loss = 0
    /\ u = 0 /\ v = 0 /\ lon_prime = 0 /\ lat_prime = 0
    /\ lat_dep = 0 /\ lon_dep = 0
    /\ grid_x = NaN /\ grid_y = NaN /\ sampled = None /\ returned = None

IdleParadis ==
    /\ ppc = "idle"
    /\ num_substeps = 1 /\ substep = 0
    /\ z = 0 /\ z0 = 0 /\ z_adv = None /\ dz = 0
    /\ calls = <<>> /\ outs = <<>>

Init ==
    /\ \E cfg \in Configs :
          /\ hidden_dim = cfg.hidden_dim
          /\ variational = cfg.variational
          /\ mesh = cfg.mesh
          /\ cell = cfg.cell
          /\ dt = cfg.dt
    /\ pc = "start"
    /\ velocities = None /\ kl_loss = 0
    /\ u = 0 /\ v = 0 /\ lon_prime = 0 /\ lat_prime = 0
    /\ lat_dep = 0 /\ lon_dep = 0
    /\ grid_x = NaN /\ grid_y = NaN /\ sampled = None /\ returned = None
    /\ IdleParadis

\* lines 74-80: the predictor's output, and its auxiliary loss when variational
VelocityNet ==
    /\ pc = "start"
    /\ velocities' \in [0..(2 * hidden_dim - 1) -> Vel]
    /\ kl_loss' \in (IF variational THEN 0..MaxVal ELSE {0})
    /\ pc' = "vel"
    /\ UNCHANGED <<hidden_dim, mesh, cell, u, v, lon_prime, lat_prime, lat_dep,
                   lon_dep, grid_x, grid_y, sampled, returned, paradisVars,
                   variational, dt>>

\* lines 84-95: the view, the u / v slices and the rotated-frame displacement
SplitVelocities ==
    /\ pc = "vel"
    /\ LET su == ViewSource(cell.b, 0, cell.c, cell.i, cell.j)
           sv == ViewSource(cell.b, 1, cell.c, cell.i, cell.j)
       IN  /\ u' = PredictorAt(su[1], su[2])
           /\ v' = PredictorAt(sv[1], sv[2])
    /\ lon_prime' = -u' * dt
    /\ lat_prime' = -v' * dt
    /\ pc' = "disp"
    /\ UNCHANGED <<hidden_dim, mesh, cell, velocities, kl_loss, lat_dep, lon_dep,
                   grid_x, grid_y, sampled, returned, paradisVars, variational, dt>>

\* lines 99-111
TransformToLatLon ==
    /\ pc = "disp"
    /\ Representable(lat_prime, lon_prime, lat_grid(cell.i))
    /\ LET dep == _transform_to_latlon(lat_prime, lon_prime,
                                       lat_grid(cell.i), lon_grid(cell.j))
       IN  lat_dep' = dep[1] /\ lon_dep' = dep[2]
    /\ pc' = "dep"
    /\ UNCHANGED <<hidden_dim, mesh, cell, velocities, kl_loss, u, v, lon_prime,
                   lat_prime, grid_x, grid_y, sampled, returned, paradisVars,
                   variational, dt>>

\* lines 113-114
LinearRescale ==
    /\ pc = "dep"
    /\ grid_x' = Normalise(lon_dep, min_lon, max_lon)
    /\ grid_y' = Normalise(lat_dep, min_lat, max_lat)
    /\ pc' = "scaled"
    /\ UNCHANGED <<hidden_dim, mesh, cell, velocities, kl_loss, u, v, lon_prime,
                   lat_prime, lat_dep, lon_dep, sampled, returned, paradisVars,
                   variational, dt>>

\* line 117
LongitudeWrap ==
    /\ pc = "scaled"
    /\ grid_x' = PeriodicWrap(grid_x)
    /\ pc' = "wrapped"
    /\ UNCHANGED <<hidden_dim, mesh, cell, velocities, kl_loss, u, v, lon_prime,
                   lat_prime, lat_dep, lon_dep, grid_y, sampled, returned,
                   paradisVars, variational, dt>>

\* lines 120-124
GeoCyclicShift ==
    /\ pc = "wrapped"
    /\ grid_x' = GeoCyclicRoll(grid_x, grid_y)
    /\ pc' = "shifted"
    /\ UNCHANGED <<hidden_dim, mesh, cell, velocities, kl_loss, u, v, lon_prime,
                   lat_prime, lat_dep, lon_dep, grid_y, sampled, returned,
                   paradisVars, variational, dt>>

\* lines 127-128
MirrorLatitude ==
    /\ pc = "shifted"
    /\ grid_y' = LatitudeMirror(grid_y)
    /\ pc' = "mirrored"
    /\ UNCHANGED <<hidden_dim, mesh, cell, velocities, kl_loss, u, v, lon_prime,
                   lat_prime, lat_dep, lon_dep, grid_x, sampled, returned,
                   paradisVars, variational, dt>>

\* lines 136-140
RescaleForPadding ==
    /\ pc = "mirrored"
    /\ grid_x' = PadRescale(grid_x, mesh.W)
    /\ grid_y' = PadRescale(grid_y, mesh.H)
    /\ pc' = "padded"
    /\ UNCHANGED <<hidden_dim, mesh, cell, velocities, kl_loss, u, v, lon_prime,
                   lat_prime, lat_dep, lon_dep, sampled, returned, paradisVars,
                   variational, dt>>

\* lines 143-165
Interpolate ==
    /\ pc = "padded"
    /\ sampled' = <<SourcePixel(grid_y, mesh.H), SourcePixel(grid_x, mesh.W)>>
    /\ pc' = "sampled"
    /\ UNCHANGED <<hidden_dim, mesh, cell, velocities, kl_loss, u, v, lon_prime,
                   lat_prime, lat_dep, lon_dep, grid_x, grid_y, returned,
                   paradisVars, variational, dt>>

\* lines 167-170
Return ==
    /\ pc = "sampled"
    /\ returned' = ForwardResult("interpolated", kl_loss)
    /\ pc' = "done"
    /\ UNCHANGED <<hidden_dim, mesh, cell, velocities, kl_loss, u, v, lon_prime,
                   lat_prime, lat_dep, lon_dep, grid_x, grid_y, sampled,
                   paradisVars, variational, dt>>

Next ==
    \/ VelocityNet
    \/ SplitVelocities
    \/ TransformToLatLon
    \/ LinearRescale
    \/ LongitudeWrap
    \/ GeoCyclicShift
    \/ MirrorLatitude
    \/ RescaleForPadding
    \/ Interpolate
    \/ Return

Spec == Init /\ [][Next]_vars

----------------------------------------------------------------------------
(* Paradis.forward: the sub-step loop.  A tensor is followed through one of *)
(* its elements, an integer.                                                *)

Vals == (-MaxVal)..MaxVal

\* self.advection(z, lat_grid, lon_grid, self.dt): the interpolated field is
\* decided by learned weights, the shape of the result by lines 167-170
AdvectionResults == {ForwardResult(a, kl) : a \in Vals, kl \in 0..MaxVal}

IsTensor(x) == x[1] = "tensor"

InitParadis ==
    /\ IdleNSL
    /\ variational \in BOOLEAN
    /\ dt \in 1..MaxDt
    /\ num_substeps \in 1..MaxSubsteps
    /\ ppc = "start"
    /\ substep = 0
    /\ z = 0 /\ z0 = 0 /\ z_adv = None /\ dz = 0
    /\ calls = <<>> /\ outs = <<>>

\* lines 227-230
InputProjection ==
    /\ ppc = "start"
    /\ z' \in Vals
    /\ z0' = z'
    /\ ppc' = "loop"
    /\ UNCHANGED <<nslVars, num_substeps, substep, z_adv, dz, calls, outs,
                   variational, dt>>

\* line 233
EnterSubstep ==
    /\ ppc = "loop"
    /\ substep < num_substeps
    /\ ppc' = "advect"
    /\ UNCHANGED <<nslVars, num_substeps, substep, z, z0, z_adv, dz, calls, outs,
                   variational, dt>>

\* line 235
Advect ==
    /\ ppc = "advect"
    /\ z_adv' \in AdvectionResults
    /\ calls' = Append(calls, z)
    /\ ppc' = "diffuse"
    /\ UNCHANGED <<nslVars, num_substeps, substep, z, z0, dz, outs, variational, dt>>

\* line 238: the operator is defined on a feature tensor; whether it rejects
\* anything else is its own affair, so on a pair both outcomes are possible
DiffusionReaction ==
    /\ ppc = "diffuse"
    /\ dz' \in Vals
    /\ ppc' = "update"
    /\ UNCHANGED <<nslVars, num_substeps, substep, z, z0, z_adv, calls, outs,
                   variational, dt>>

DiffusionReactionRaises ==
    /\ ppc = "diffuse"
    /\ ~IsTensor(z_adv)
    /\ ppc' = "raised"
    /\ UNCHANGED <<nslVars, num_substeps, substep, z, z0, z_adv, dz, calls, outs,
                   variational, dt>>

\* line 241, and the loop's increment
Update ==
    /\ ppc = "update"
    /\ IsTensor(z_adv)
    /\ z' = z + z_adv[2] + dt * dz
    /\ outs' = Append(outs, z')
    /\ substep' = substep + 1
    /\ ppc' = "loop"
    /\ UNCHANGED <<nslVars, num_substeps, z0, z_adv, dz, calls, variational, dt>>

\* line 241 with a tuple as the left operand of +: a TypeError leaves forward
UpdateRaises ==
    /\ ppc = "update"
    /\ ~IsTensor(z_adv)
    /\ ppc' = "raised"
    /\ UNCHANGED <<nslVars, num_substeps, substep, z, z0, z_adv, dz, calls, outs,
                   variational, dt>>

\* lines 233, 244: the loop is exhausted and the residual is projected
OutputProjection ==
    /\ ppc = "loop"
    /\ substep >= num_substeps
    /\ ppc' = "returned"
    /\ UNCHANGED <<nslVars, num_substeps, substep, z, z0, z_adv, dz, calls, outs,
                   variational, dt>>

NextParadis ==
    \/ InputProjection
    \/ EnterSubstep
    \/ Advect
    \/ DiffusionReaction
    \/ DiffusionReactionRaises
    \/ Update
    \/ UpdateRaises
    \/ OutputProjection

SpecParadis == InitParadis /\ [][NextParadis]_vars

----------------------------------------------------------------------------
(* Properties *)

NonDegenerate == max_lon # min_lon /\ max_lat # min_lat
InUnit(g) == FLe(Num(-1), g) /\ FLe(g, Num(1))
AfterSplit == pc \notin {"idle", "start", "vel"}

\* C1 as stated: for every departure coordinate and every non-degenerate grid,
\* grid_x and grid_y after rescale, wrap, shift and mirror lie within [-1, 1].
C1_GridWithinUnit ==
    (pc = "mirrored" /\ NonDegenerate) => (InUnit(grid_x) /\ InUnit(grid_y))

\* C1 amended: grid_x always lies within [-1, 1]; grid_y lies within [-1, 1]
\* exactly when the linearly rescaled grid_y is in [-5, 3], that is when
\* min_lat - 2*(max_lat - min_lat) <= lat_dep <= max_lat + (max_lat - min_lat).
C1_Amended ==
    (pc = "mirrored" /\ NonDegenerate) =>
        /\ InUnit(grid_x)
        /\ InUnit(grid_y) <=>
              /\ min_lat - 2 * (max_lat - min_lat) <= lat_dep
              /\ lat_dep <= max_lat + (max_lat - min_lat)

\* a departure latitude beyond max_lat was mirrored back into [-1, 1]
C1_Witness ==
    /\ pc = "mirrored" /\ NonDegenerate
    /\ lat_dep > max_lat
    /\ InUnit(grid_y) /\ InUnit(grid_x)

\* C2: with u = v = 0 the sampler reads, for every cell (i, j), the centre of
\* padded pixel (i+1, j+1): the cell itself.
C2_ZeroDisplacementIdentity ==
    (pc = "sampled" /\ NonDegenerate /\ u = 0 /\ v = 0) =>
        sampled = <<Num(cell.i + 1), Num(cell.j + 1)>>

\* the sampling coordinate of the traced element on the same mesh without the
\* 2*pi shift of lon_grid
UnshiftedGridX ==
    LET lons == {j * mesh.dlon : j \in 0..(mesh.W - 1)}
        dep == _transform_to_latlon(lat_prime, lon_prime, lat_grid(cell.i),
                                    cell.j * mesh.dlon)
    IN  GeoCyclicRoll(PeriodicWrap(Normalise(dep[2], SetMin(lons), SetMax(lons))),
                      Normalise(dep[1], min_lat, max_lat))

\* C3: adding 2*pi to every entry of lon_grid leaves the sampling coordinate
\* of every cell identical to the unshifted case.
C3_LongitudePeriodicity ==
    (pc = "mirrored" /\ NonDegenerate /\ mesh.shifted) => grid_x = UnshiftedGridX

\* C4: after the padding rescale, -1 and +1 address the centres of the first
\* and last cells of the unpadded field: padded pixels 1 and W (1 and H).
C4_ExtremesAddressCorners ==
    (pc = "sampled" /\ mesh.H >= 2 /\ mesh.W >= 2) =>
        /\ grid_x = Fin(-mesh.W, mesh.W + 2 * padding) => sampled[2] = Num(1)
        /\ grid_x = Fin(mesh.W, mesh.W + 2 * padding) => sampled[2] = Num(mesh.W)
        /\ grid_y = Fin(-mesh.H, mesh.H + 2 * padding) => sampled[1] = Num(1)
        /\ grid_y = Fin(mesh.H, mesh.H + 2 * padding) => sampled[1] = Num(mesh.H)

\* the longitude / latitude a normalized coordinate stands for
LonOf(gx) == FAdd(Num(min_lon), FMul(FDiv(FAdd(gx, Num(1)), Num(2)), Num(max_lon - min_lon)))
LatOf(gy) == FAdd(Num(min_lat), FMul(FDiv(FAdd(gy, Num(1)), Num(2)), Num(max_lat - min_lat)))

PoleCorrectionFires == lat_dep > max_lat \/ lat_dep < min_lat

\* C5: when the pole-crossing correction fires, the point sampled has the
\* departure longitude plus pi (mod 2*pi) and the departure latitude mirrored
\* about the crossed bound, on grids whose extrema are the cell coordinates.
C5_PoleCrossingConsistency ==
    (pc = "mirrored" /\ NonDegenerate /\ PoleCorrectionFires) =>
        /\ Remainder(FSub(LonOf(grid_x), Num(lon_dep + Pi)), Num(TwoPi)) = Num(0)
        /\ LatOf(grid_y) = Num(IF lat_dep > max_lat THEN 2 * max_lat - lat_dep
                                                    ELSE 2 * min_lat - lat_dep)

\* C6: on a degenerate grid forward ends in an error before any sampling
\* coordinate is used, and never returns.
C6_DegenerateGridFatal ==
    ~NonDegenerate => pc \notin {"sampled", "done"}

C8_ShiftOnce ==
    [][(pc = "wrapped" /\ pc' = "shifted") =>
          LET fires == FGt(FAbs(grid_y), Num(1))
          IN  /\ (fires /\ FLe(grid_x, Num(0))) => grid_x' = FAdd(grid_x, Num(1))
              /\ (fires /\ FGt(grid_x, Num(0))) => grid_x' = FSub(grid_x, Num(1))
              /\ ~fires => grid_x' = grid_x]_vars

\* an element strictly left of the centre was moved right by the +1 shift and
\* stays there (grid_y is still the value before the mirror)
C8_Witness ==
    /\ pc = "shifted" /\ NonDegenerate
    /\ FGt(FAbs(grid_y), Num(1))
    /\ FGt(grid_x, Num(0)) /\ FLt(grid_x, Num(1))

\* C9: forward invokes the advection step exactly num_substeps times, the k-th
\* on the z of the (k-1)-th update (the projected input first), and the loop
\* then terminates.
C9_SubstepRecurrence ==
    ppc \in {"returned", "raised"} =>
        /\ ppc = "returned"
        /\ Len(calls) = num_substeps /\ Len(outs) = num_substeps
        /\ calls[1] = z0
        /\ \A k \in 2..num_substeps : calls[k] = outs[k - 1]

\* C10: in both configurations the diffusion-reaction operator and the
\* accumulation receive a tensor, and the loop raises no type error.
C10_TensorToDiffusion ==
    /\ ppc \in {"diffuse", "update"} => IsTensor(z_adv)
    /\ ppc # "raised"

====
